---- MODULE Spec2Model ----
(***************************************************************************)
(* A model of modernglpp: the allocator-backed owning objects (Buffer,     *)
(* VertexArray, Texture, Program), the Sampler, the uniform dispatch and   *)
(* the device (OpenGL) state they act on.                                  *)
(*                                                                         *)
(* Every public operation is one action.  Each action leaves in `op` a     *)
(* record of the operation and its outcome, and in `calls` the sequence    *)
(* of device and allocator calls it issued, in issue order.                *)
(*                                                                         *)
(* debug_break() stops the program under a debugger; the model follows     *)
(* the run the debugger resumes (op.trap records the trap), which holds    *)
(* every state of the run that ends at the trap.                           *)
(***************************************************************************)
EXTENDS Integers, Sequences, FiniteSets

\* ------------------------------------------------------------------ bounds
MaxBlocks == 4
MaxHandles == 4
MaxAttach == 2
MaxScratch == 3
MaxLog == 4
MaxView == 17
MaxTextures == 1
MaxSlot == 1
MaxString == 3
MaxAddress == 2

\* --------------------------------------------------------------- constants
\* The null handle and the null object address.
NULL == 0

\* A null pointer to an allocator or to a string.
nullptr == "nullptr"

\* The allocator instances a caller can install: mgl::defaultAllocator and
\* one of the caller's own.
Allocators == {"defaultAllocator", "callerAllocator"}

\* What released a block: nothing yet, an allocator's free, or the global
\* operator delete of a delete-expression.
NotFreed == "not freed"
OperatorDelete == "operator delete"

\* glGetError's results.
NoError == "GL_NO_ERROR"
GLErrors == {"GL_INVALID_ENUM", "GL_INVALID_VALUE", "GL_INVALID_OPERATION",
             "GL_OUT_OF_MEMORY", "GL_INVALID_FRAMEBUFFER_OPERATION"}

\* What the device is made to report after an operation's commands: no
\* error, an error glGetErrorString names, and one it does not name.
Reported == {NoError, "GL_INVALID_OPERATION", "GL_INVALID_FRAMEBUFFER_OPERATION"}

\* A value read from storage that was already released or never written.
Garbage == -1

\* No Sampler has been constructed yet.
NoSampler == [index |-> NULL, texture |-> NULL, constructed |-> FALSE,
              lastSet |-> NULL]

VARIABLES
    allocator,    \* ::allocator, the installed AllocatorFuncs*
    heap,         \* the blocks handed out by allocators; the address is the index
    callerPtrs,   \* the object pointers the caller got from make and has not deleted
    glLive,       \* the device object names in use
    glDeletes,    \* per device name, the glDelete* calls that named it
    glAttached,   \* <<program, shader>>: the shader is attached to the program
    glFlagged,    \* shaders deleted while attached: they go with their program
    glBoundVAO,   \* the currently bound vertex array name
    nextHandle,   \* the next unused device name
    glError,      \* the device's recorded error
    sampler,      \* the caller's Sampler: its slot index and Texture pointer,
                  \* and (lastSet) the pointer last handed to setTexture
    op,           \* the operation that ran last, with its outcome
    calls         \* the device and allocator calls it issued, in order

deviceVars == <<glLive, glDeletes, glAttached, glFlagged, glBoundVAO, nextHandle>>
vars == <<allocator, heap, callerPtrs, deviceVars, glError, sampler, op, calls>>

\* ----------------------------------------------------------------- helpers
RECURSIVE Flatten(_)
Flatten(ss) == IF ss = <<>> THEN <<>> ELSE Head(ss) \o Flatten(Tail(ss))

\* glGetErrorString: the name of the pending error, nullptr (NULL) for
\* GL_NO_ERROR and for every code the switch does not list.
glGetErrorString(e) ==
    CASE e = "GL_INVALID_ENUM"      -> "GL_INVALID_ENUM"
      [] e = "GL_INVALID_VALUE"     -> "GL_INVALID_VALUE"
      [] e = "GL_INVALID_OPERATION" -> "GL_INVALID_OPERATION"
      [] e = "GL_OUT_OF_MEMORY"     -> "GL_OUT_OF_MEMORY"
      [] OTHER                      -> nullptr

\* The device records the first error and keeps it until it is read.
Raise(pending, e) == IF pending # NoError THEN pending ELSE e

\* MGL_OPENGL_CHECK: reads (and so clears) the error, traps on a name.
MGL_OPENGL_CHECK(pending) == glGetErrorString(pending) # nullptr

\* View(): no elements at the null pointer.
View_default == [first |-> NULL, len |-> 0]

\* View(T* ptr, size_t length): both members as given.
View_pointer(ptr, length) == [first |-> ptr, len |-> length]

\* A block of allocator storage and the object constructed in it.
Block(type, by, handle) ==
    [type |-> type, allocBy |-> by, freedBy |-> NotFreed, dtors |-> 0,
     handle |-> handle, items |-> <<>>, attachedBuffers |-> NULL,
     attachedBufferCount |-> 0, format |-> "-"]

\* newObject<T>: storage from the installed allocator, the object
\* constructed in it; the new object's address is Len(heap) + 1.
newObject(type, handle) == Append(heap, Block(type, allocator, handle))

Live(type) == {a \in callerPtrs : heap[a].type = type}

\* ------------------------------------------------------------------- state
Init ==
    /\ allocator = nullptr
    /\ heap = <<>>
    /\ callerPtrs = {}
    /\ glLive = {}
    /\ glDeletes = [h \in 1..MaxHandles |-> 0]
    /\ glAttached = {}
    /\ glFlagged = {}
    /\ glBoundVAO = NULL
    /\ nextHandle = 1
    /\ glError = NoError
    /\ sampler = NoSampler
    /\ op = [name |-> "start"]
    /\ calls = <<>>

\* mgl::init: installs the allocator, whatever was installed before.
init(a) ==
    /\ allocator' = a
    /\ op' = [name |-> "init", allocator |-> a]
    /\ calls' = << <<"gladLoadGL">> >>
    /\ UNCHANGED <<heap, callerPtrs, deviceVars, glError, sampler>>

\* ------------------------------------------------------------------ clear
\* The device's clear-mask bits.
GL_COLOR_BUFFER_BIT == 16384
GL_DEPTH_BUFFER_BIT == 256

\* a | b on non-negative integers.
RECURSIVE BitOr(_, _)
BitOr(a, b) ==
    IF a = 0 THEN b
    ELSE IF b = 0 THEN a
    ELSE (IF a % 2 = 1 \/ b % 2 = 1 THEN 1 ELSE 0) + 2 * BitOr(a \div 2, b \div 2)

\* A bool converted to int, and an int converted to bool.
IntOf(flag) == IF flag THEN 1 ELSE 0
BoolOf(n) == n # 0

\* The argument of glClear as the expression parses: | binds tighter than
\* ?:, so it reads  clearColour ? COLOR : ((0 | clearDepth) ? DEPTH : 0).
ClearMask(clearColour, clearDepth) ==
    IF clearColour THEN GL_COLOR_BUFFER_BIT
    ELSE IF BoolOf(BitOr(0, IntOf(clearDepth))) THEN GL_DEPTH_BUFFER_BIT
    ELSE 0

\* The clear colours a caller passes.
Colours == {<<0, 0, 0>>, <<1, 1, 1>>}

\* clear(r, g, b, clearColour, clearDepth): the clear colour with alpha 1,
\* then glClear; no error check.
clear(rgb, clearColour, clearDepth) ==
    /\ allocator # nullptr
    /\ op' = [name |-> "clear", clearColour |-> clearColour,
              clearDepth |-> clearDepth]
    /\ calls' = << <<"glClearColor", rgb[1], rgb[2], rgb[3], 1>>,
                   <<"glClear", ClearMask(clearColour, clearDepth)>> >>
    /\ UNCHANGED <<allocator, heap, callerPtrs, deviceVars, glError, sampler>>

\* ------------------------------------------------------------- destruction
\* What a destructor reads as its object's handle: the stored name, or, when
\* the object's storage was released before, whatever the storage holds now.
HandleReads(a) ==
    IF heap[a].freedBy = NotFreed THEN {heap[a].handle}
                                  ELSE {heap[a].handle, Garbage}

\* Buffer::~Buffer on the object at b, which reads h as its handle.
BufferDtor(b, h) == << <<"~Buffer", b>>, <<"glDeleteBuffers", h>> >>

\* VertexArray::getBuffers: { attachedBuffers, attachedBufferCount }.
getBuffers(v) ==
    SubSeq(heap[heap[v].attachedBuffers].items, 1, heap[v].attachedBufferCount)

\* A destructor that releases the list before it walks it.
VertexArrayDtor_FreeFirst(v, reads) ==
    << <<"~VertexArray", v>>, <<"glDeleteVertexArrays", heap[v].handle>>,
       <<"free", allocator, heap[v].attachedBuffers>> >>
    \o Flatten([i \in 1..Len(getBuffers(v)) |->
                   BufferDtor(getBuffers(v)[i], reads[i])])

\* VertexArray::~VertexArray: the device name, then every attached Buffer's
\* destructor (and only the destructor), then the list's storage.
VertexArrayDtor(v, reads) ==
    << <<"~VertexArray", v>>, <<"glDeleteVertexArrays", heap[v].handle>> >>
    \o Flatten([i \in 1..Len(getBuffers(v)) |->
                   BufferDtor(getBuffers(v)[i], reads[i])])
    \o << <<"free", allocator, heap[v].attachedBuffers>> >>

\* Texture::~Texture, with its error check.
TextureDtor(t) ==
    << <<"~Texture", t>>, <<"glDeleteTextures", heap[t].handle>>,
       <<"glGetError">> >>

\* Program::~Program.
ProgramDtor(p) == << <<"~Program", p>>, <<"glDeleteProgram", heap[p].handle>> >>

\* ptr->~T() for the object at p.
Destructor(p, reads) ==
    CASE heap[p].type = "Buffer"      -> BufferDtor(p, reads[1])
      [] heap[p].type = "VertexArray" -> VertexArrayDtor(p, reads)
      [] heap[p].type = "Texture"     -> TextureDtor(p)
      [] heap[p].type = "Program"     -> ProgramDtor(p)

\* The handle values the destructors run for p can read, one per Buffer
\* destructor.
ReadChoices(p) ==
    IF p = NULL THEN {<<>>}
    ELSE CASE heap[p].type = "Buffer" -> {<<h>> : h \in HandleReads(p)}
           [] heap[p].type = "VertexArray" ->
                 {r \in [1..Len(getBuffers(p)) -> (1..MaxHandles) \cup {Garbage}] :
                     \A i \in 1..Len(getBuffers(p)) :
                         r[i] \in HandleReads(getBuffers(p)[i])}
           [] OTHER -> {<<>>}

DtorNames == {"~Buffer", "~VertexArray", "~Texture", "~Program"}
CreateNames == {"glGenBuffers", "glGenVertexArrays", "glGenTextures",
                "glCreateShader", "glCreateProgram"}
DeleteNames == {"glDeleteBuffers", "glDeleteVertexArrays", "glDeleteTextures",
                "glDeleteProgram", "glDeleteShader"}

Count(cs, fs, x) ==
    Cardinality({i \in 1..Len(cs) : cs[i][1] \in fs /\ cs[i][2] = x})

\* The heap after the calls cs: a destructor ran on an object, a free or an
\* operator delete released a block.
HeapAfter(cs) ==
    [a \in 1..Len(heap) |->
        [heap[a] EXCEPT
            !.dtors = @ + Count(cs, DtorNames, a),
            !.freedBy =
                IF \E i \in 1..Len(cs) : cs[i] = <<"operator delete", a>>
                THEN OperatorDelete
                ELSE IF \E i \in 1..Len(cs) :
                            cs[i][1] = "free" /\ cs[i][3] = a
                     THEN (CHOOSE al \in Allocators : \E i \in 1..Len(cs) :
                              cs[i] = <<"free", al, a>>)
                     ELSE @]]

\* The device's object state, as one record.
Device ==
    [live |-> glLive, deletes |-> glDeletes, attached |-> glAttached,
     flagged |-> glFlagged, boundVAO |-> glBoundVAO, next |-> nextHandle]

\* The shaders that go when program pr goes: attached to it and flagged.
GoWith(d, pr) == {sh \in d.flagged : <<pr, sh>> \in d.attached}

\* One device call's effect on the device's object state.  A name that is
\* not in use (0, a deleted name, garbage) is silently ignored by glDelete*.
DeviceStep(d, c) ==
    LET counted == IF c[2] \in DOMAIN d.deletes
                   THEN [d EXCEPT !.deletes[c[2]] = @ + 1] ELSE d
    IN CASE c[1] \in CreateNames ->
                [d EXCEPT !.live = @ \cup {c[2]}, !.next = c[2] + 1]
         [] c[1] = "glBindVertexArray" -> [d EXCEPT !.boundVAO = c[2]]
         [] c[1] = "glAttachShader" ->
                [d EXCEPT !.attached = @ \cup {<<c[2], c[3]>>}]
         [] c[1] = "glDeleteShader" ->
                IF \E x \in d.attached : x[2] = c[2]
                THEN [counted EXCEPT !.flagged = @ \cup {c[2]}]
                ELSE [counted EXCEPT !.live = @ \ {c[2]}]
         [] c[1] = "glDeleteProgram" ->
                [counted EXCEPT
                    !.live = @ \ ({c[2]} \cup GoWith(d, c[2])),
                    !.flagged = @ \ GoWith(d, c[2]),
                    !.attached = {x \in @ : x[1] # c[2]}]
         [] c[1] \in {"glDeleteBuffers", "glDeleteTextures"} ->
                [counted EXCEPT !.live = @ \ {c[2]}]
         [] c[1] = "glDeleteVertexArrays" ->
                [counted EXCEPT
                    !.live = @ \ {c[2]},
                    !.boundVAO = IF @ = c[2] THEN NULL ELSE @]
         [] OTHER -> d

RECURSIVE RunDevice(_, _)
RunDevice(d, cs) ==
    IF cs = <<>> THEN d ELSE RunDevice(DeviceStep(d, Head(cs)), Tail(cs))

\* The device after the calls cs.
DeviceAfter(cs) ==
    LET d == RunDevice(Device, cs)
    IN /\ glLive' = d.live
       /\ glDeletes' = d.deletes
       /\ glAttached' = d.attached
       /\ glFlagged' = d.flagged
       /\ glBoundVAO' = d.boundVAO
       /\ nextHandle' = d.next

\* The destruction of the object at p, whose storage `release` then frees.
Destroy(opname, p, reads, release) ==
    IF p = NULL
    THEN /\ op' = [name |-> opname, self |-> NULL, type |-> "-",
                   err |-> glError, sampled |-> FALSE, trap |-> FALSE]
         /\ calls' = <<>>
         /\ UNCHANGED <<allocator, heap, callerPtrs, deviceVars, glError,
                        sampler>>
    ELSE LET cs == Destructor(p, reads) \o <<release>>
             checked == heap[p].type = "Texture"
         IN /\ heap' = HeapAfter(cs)
            /\ callerPtrs' = callerPtrs \ {p}
            /\ DeviceAfter(cs)
            /\ glError' = IF checked THEN NoError ELSE glError
            /\ op' = [name |-> opname, self |-> p, type |-> heap[p].type,
                      err |-> glError, sampled |-> checked,
                      trap |-> checked /\ MGL_OPENGL_CHECK(glError)]
            /\ calls' = cs
            /\ UNCHANGED <<allocator, sampler>>

\* deleteObject(ptr): nothing for a null pointer; otherwise the destructor,
\* then the installed allocator's free.
deleteObject(p, reads) ==
    /\ p # NULL => allocator # nullptr
    /\ p \in callerPtrs \cup {NULL}
    /\ Destroy("deleteObject", p, reads, <<"free", allocator, p>>)

\* `delete ptr` as the example's main does it: nothing for a null pointer;
\* otherwise the destructor, then the global operator delete.
DeleteExpression(p, reads) ==
    /\ p \in callerPtrs \cup {NULL}
    /\ Destroy("delete", p, reads, <<"operator delete", p>>)

\* ----------------------------------------------------------------- Buffer
\* Buffer::make: a device buffer, sized and filled, then the Buffer object.
BufferMake(e) ==
    /\ allocator # nullptr
    /\ Len(heap) < MaxBlocks
    /\ nextHandle <= MaxHandles
    /\ LET h == nextHandle
           self == Len(heap) + 1
           pend == Raise(glError, e)
           cs == << <<"glGenBuffers", h>>, <<"glBindBuffer", h>>,
                    <<"glBufferData", h>>, <<"glGetError">>,
                    <<"allocate", allocator, self>> >>
       IN /\ heap' = newObject("Buffer", h)
          /\ callerPtrs' = callerPtrs \cup {self}
          /\ DeviceAfter(cs)
          /\ glError' = NoError
          /\ op' = [name |-> "Buffer::make", self |-> self,
                    err |-> pend, sampled |-> TRUE,
                    trap |-> MGL_OPENGL_CHECK(pend)]
          /\ calls' = cs
    /\ UNCHANGED <<allocator, sampler>>

\* ------------------------------------------------------------ VertexArray
\* The buffer lists a caller can hand to VertexArray::make.
BufferLists ==
    {bs \in UNION {[1..n -> Live("Buffer")] : n \in 0..MaxAttach} :
        \A i, j \in 1..Len(bs) : i # j => bs[i] # bs[j]}

\* The configure callback, as the example writes it: bind each buffer
\* (Buffer::bind, with its check) and describe its attribute.
ConfigureCallback(h, bs) ==
    << <<"callback", h, bs>> >>
    \o Flatten([i \in 1..Len(bs) |->
                   << <<"glBindBuffer", heap[bs[i]].handle>>, <<"glGetError">>,
                      <<"glEnableVertexAttribArray", i - 1>>,
                      <<"glVertexAttribPointer", i - 1>> >>])

\* A make that runs the callback on the new name before binding it.
VertexArrayMake_CallbackUnbound(bs, e1, e2) ==
    /\ allocator # nullptr
    /\ Len(heap) + 2 <= MaxBlocks
    /\ nextHandle <= MaxHandles
    /\ LET h == nextHandle
           list == Len(heap) + 1
           vao == Len(heap) + 2
           pend1 == Raise(glError, e1)
           cs == << <<"glGenVertexArrays", h>> >>
                 \o ConfigureCallback(h, bs)
                 \o << <<"glGetError">>, <<"glBindVertexArray", h>>,
                       <<"glGetError">>, <<"allocate", allocator, list>>,
                       <<"allocate", allocator, vao>> >>
       IN /\ heap' = heap \o
                << [Block("Buffer*[]", allocator, NULL) EXCEPT !.items = bs],
                   [Block("VertexArray", allocator, h) EXCEPT
                       !.attachedBuffers = list,
                       !.attachedBufferCount = Len(bs)] >>
          /\ callerPtrs' = callerPtrs \cup {vao}
          /\ DeviceAfter(cs)
          /\ glError' = NoError
          /\ op' = [name |-> "VertexArray::make", self |-> vao, buffers |-> bs,
                    err |-> IF pend1 # NoError THEN pend1 ELSE e2,
                    sampled |-> TRUE,
                    trap |-> MGL_OPENGL_CHECK(pend1) \/ MGL_OPENGL_CHECK(e2)]
          /\ calls' = cs
    /\ UNCHANGED <<allocator, sampler>>

\* VertexArray::make: the device name, bound; the callback; then the list's
\* storage, the VertexArray object, and the pointers copied into the list.
VertexArrayMake(bs, e1, e2) ==
    /\ allocator # nullptr
    /\ Len(heap) + 2 <= MaxBlocks
    /\ nextHandle <= MaxHandles
    /\ LET h == nextHandle
           list == Len(heap) + 1
           vao == Len(heap) + 2
           pend1 == Raise(glError, e1)
           cs == << <<"glGenVertexArrays", h>>, <<"glBindVertexArray", h>>,
                    <<"glGetError">> >>
                 \o ConfigureCallback(h, bs)
                 \o << <<"glGetError">>, <<"allocate", allocator, list>>,
                       <<"allocate", allocator, vao>> >>
       IN /\ heap' = heap \o
                << [Block("Buffer*[]", allocator, NULL) EXCEPT !.items = bs],
                   [Block("VertexArray", allocator, h) EXCEPT
                       !.attachedBuffers = list,
                       !.attachedBufferCount = Len(bs)] >>
          /\ callerPtrs' = callerPtrs \cup {vao}
          /\ DeviceAfter(cs)
          /\ glError' = NoError
          /\ op' = [name |-> "VertexArray::make", self |-> vao, buffers |-> bs,
                    err |-> IF pend1 # NoError THEN pend1 ELSE e2,
                    sampled |-> TRUE,
                    trap |-> MGL_OPENGL_CHECK(pend1) \/ MGL_OPENGL_CHECK(e2)]
          /\ calls' = cs
    /\ UNCHANGED <<allocator, sampler>>

\* Buffer::bind.
BufferBind(b, e) ==
    /\ b \in Live("Buffer")
    /\ op' = [name |-> "Buffer::bind", self |-> b, err |-> Raise(glError, e),
              sampled |-> TRUE, trap |-> MGL_OPENGL_CHECK(Raise(glError, e))]
    /\ calls' = << <<"glBindBuffer", heap[b].handle>>, <<"glGetError">> >>
    /\ glError' = NoError
    /\ UNCHANGED <<allocator, heap, callerPtrs, deviceVars, sampler>>

\* Buffer::write.
BufferWrite(b, e) ==
    /\ b \in Live("Buffer")
    /\ op' = [name |-> "Buffer::write", self |-> b, err |-> Raise(glError, e),
              sampled |-> TRUE, trap |-> MGL_OPENGL_CHECK(Raise(glError, e))]
    /\ calls' = << <<"glBindBuffer", heap[b].handle>>,
                   <<"glBufferSubData", heap[b].handle>>, <<"glGetError">> >>
    /\ glError' = NoError
    /\ UNCHANGED <<allocator, heap, callerPtrs, deviceVars, sampler>>

\* VertexArray::bind.
VertexArrayBind(v, e) ==
    /\ v \in Live("VertexArray")
    /\ LET cs == << <<"glBindVertexArray", heap[v].handle>>, <<"glGetError">> >>
       IN /\ DeviceAfter(cs)
          /\ calls' = cs
    /\ op' = [name |-> "VertexArray::bind", self |-> v,
              err |-> Raise(glError, e), sampled |-> TRUE,
              trap |-> MGL_OPENGL_CHECK(Raise(glError, e))]
    /\ glError' = NoError
    /\ UNCHANGED <<allocator, heap, callerPtrs, sampler>>

\* VertexArray::getBuffers, called by the caller: a view of the list.
VertexArrayGetBuffers(v) ==
    /\ v \in Live("VertexArray")
    /\ op' = [name |-> "VertexArray::getBuffers", self |-> v,
              view |-> View_pointer(heap[v].attachedBuffers,
                                    heap[v].attachedBufferCount),
              elements |-> getBuffers(v)]
    /\ calls' = <<>>
    /\ UNCHANGED <<allocator, heap, callerPtrs, deviceVars, glError, sampler>>

\* enum_cast(DrawMode).
DrawModes == {"Triangles", "Lines", "Points"}

enum_cast_DrawMode(mode) ==
    CASE mode = "Triangles" -> "GL_TRIANGLES"
      [] mode = "Lines"     -> "GL_LINES"
      [] mode = "Points"    -> "GL_POINTS"

\* VertexArray::draw: glDrawArrays in the mode asked for, then the check.
VertexArrayDraw(v, mode, e) ==
    /\ v \in Live("VertexArray")
    /\ op' = [name |-> "VertexArray::draw", self |-> v,
              err |-> Raise(glError, e), sampled |-> TRUE,
              trap |-> MGL_OPENGL_CHECK(Raise(glError, e))]
    /\ calls' = << <<"glDrawArrays", enum_cast_DrawMode(mode)>>,
                   <<"glGetError">> >>
    /\ glError' = NoError
    /\ UNCHANGED <<allocator, heap, callerPtrs, deviceVars, sampler>>

\* ---------------------------------------------------------------- Texture
BaseFormats == {"RED", "RG", "RGB", "RGBA", "BGR", "BGRA"}
SizedFormats == {"R8u", "RG8u", "RGB8u", "RGBA8u",
                 "R32f", "RG32f", "RGB32f", "RGBA32f"}
TextureFormats == BaseFormats \cup SizedFormats

\* enum_cast(TextureFormat).
enum_cast_TextureFormat(format) ==
    CASE format = "RED"     -> "GL_RED"
      [] format = "RG"      -> "GL_RG"
      [] format = "RGB"     -> "GL_RGB"
      [] format = "RGBA"    -> "GL_RGBA"
      [] format = "BGR"     -> "GL_BGR"
      [] format = "BGRA"    -> "GL_BGRA"
      [] format = "R8u"     -> "GL_R8"
      [] format = "RG8u"    -> "GL_RG8"
      [] format = "RGB8u"   -> "GL_RGB8"
      [] format = "RGBA8u"  -> "GL_RGBA8"
      [] format = "R32f"    -> "GL_R32F"
      [] format = "RG32f"   -> "GL_RG32F"
      [] format = "RGB32f"  -> "GL_RGB32F"
      [] format = "RGBA32f" -> "GL_RGBA32F"

DataTypes == {"Float", "Byte"}

\* enum_cast(DataType).
enum_cast_DataType(type) ==
    CASE type = "Float" -> "GL_FLOAT"
      [] type = "Byte"  -> "GL_UNSIGNED_BYTE"

\* sizedToBase with the break between two case groups lost: the three-
\* channel formats run on into the four-channel result.
sizedToBase_FallThrough(format) ==
    CASE format \in {"R8u", "R32f"}       -> "RED"
      [] format \in {"RG8u", "RG32f"}     -> "RG"
      [] format \in {"RGB8u", "RGB32f"}   -> "RGBA"
      [] format \in {"RGBA8u", "RGBA32f"} -> "RGBA"
      [] OTHER                            -> format

\* sizedToBase: a sized format's channel shape; any other format unchanged.
sizedToBase(format) ==
    CASE format \in {"R8u", "R32f"}       -> "RED"
      [] format \in {"RG8u", "RG32f"}     -> "RG"
      [] format \in {"RGB8u", "RGB32f"}   -> "RGB"
      [] format \in {"RGBA8u", "RGBA32f"} -> "RGBA"
      [] OTHER                            -> format

\* sizedToBase applied to a format, and again to what it returned.
SizedToBase(format) ==
    /\ op' = [name |-> "sizedToBase", format |-> format,
              base |-> sizedToBase(format),
              rebase |-> sizedToBase(sizedToBase(format))]
    /\ calls' = <<>>
    /\ UNCHANGED <<allocator, heap, callerPtrs, deviceVars, glError, sampler>>

\* The pixel formats the device takes for source data; it reports
\* GL_INVALID_ENUM for any other.
PixelFormats == {enum_cast_TextureFormat(f) : f \in BaseFormats}

PixelFormatError(fmt, e) == IF fmt \in PixelFormats THEN e ELSE "GL_INVALID_ENUM"

\* The source descriptions a caller can pass: none, or a format and a type.
NoSourceData == [given |-> FALSE, format |-> "-", type |-> "-"]
SourceData(formats) ==
    {NoSourceData}
    \cup {[given |-> TRUE, format |-> f, type |-> t] : f \in formats, t \in DataTypes}

\* The source pixel format Texture::make passes to glTexImage2D: reduced
\* from the description's format when there is one, else from deviceFormat.
MakePixelFormat(deviceFormat, desc) ==
    IF desc.given THEN enum_cast_TextureFormat(sizedToBase(desc.format))
                  ELSE enum_cast_TextureFormat(sizedToBase(deviceFormat))

\* The source pixel format Texture::write passes to glTexSubImage2D: the
\* texture's format as stored.
WritePixelFormat(format) == enum_cast_TextureFormat(format)

\* Texture::make(w, h, deviceFormat, desc).
TextureMake(deviceFormat, desc, e) ==
    /\ allocator # nullptr
    /\ Len(heap) < MaxBlocks
    /\ nextHandle <= MaxHandles
    /\ Cardinality({a \in 1..Len(heap) : heap[a].type = "Texture"}) < MaxTextures
    /\ LET h == nextHandle
           self == Len(heap) + 1
           fmt == MakePixelFormat(deviceFormat, desc)
           pend == Raise(glError, PixelFormatError(fmt, e))
           cs == << <<"glGenTextures", h>>, <<"glBindTexture", h>>,
                    <<"glTexImage2D", h, enum_cast_TextureFormat(deviceFormat),
                      fmt,
                      IF desc.given THEN enum_cast_DataType(desc.type)
                                    ELSE "GL_UNSIGNED_BYTE">>,
                    <<"glGetError">>, <<"allocate", allocator, self>> >>
       IN /\ heap' = Append(heap, [Block("Texture", allocator, h) EXCEPT
                                      !.format = deviceFormat])
          /\ callerPtrs' = callerPtrs \cup {self}
          /\ DeviceAfter(cs)
          /\ glError' = NoError
          /\ op' = [name |-> "Texture::make", self |-> self, desc |-> desc,
                    err |-> pend, sampled |-> TRUE,
                    trap |-> MGL_OPENGL_CHECK(pend)]
          /\ calls' = cs
    /\ UNCHANGED <<allocator, sampler>>

\* Texture::write(x, y, w, h, sourceDataType, data).
TextureWrite(t, sourceDataType, e) ==
    /\ t \in Live("Texture")
    /\ LET fmt == WritePixelFormat(heap[t].format)
           pend == Raise(glError, PixelFormatError(fmt, e))
       IN /\ op' = [name |-> "Texture::write", self |-> t, err |-> pend,
                    sampled |-> TRUE, trap |-> MGL_OPENGL_CHECK(pend)]
          /\ calls' = << <<"glBindTexture", heap[t].handle>>,
                         <<"glTexSubImage2D", heap[t].handle, fmt,
                           enum_cast_DataType(sourceDataType)>>,
                         <<"glGetError">> >>
    /\ glError' = NoError
    /\ UNCHANGED <<allocator, heap, callerPtrs, deviceVars, sampler>>

\* ---------------------------------------------------------------- Sampler
\* Sampler::Sampler(slotIndex): index is set, texture is not: it holds what
\* the object's storage held, null in a static object, anything in an
\* automatic one.
SamplerConstruct(slotIndex, held) ==
    /\ ~sampler.constructed
    /\ sampler' = [index |-> slotIndex, texture |-> held, constructed |-> TRUE,
                   lastSet |-> NULL]
    /\ op' = [name |-> "Sampler::Sampler", index |-> slotIndex]
    /\ calls' = <<>>
    /\ UNCHANGED <<allocator, heap, callerPtrs, deviceVars, glError>>

\* Sampler::setTexture.
SamplerSetTexture(t) ==
    /\ sampler.constructed
    /\ sampler' = [sampler EXCEPT !.texture = t, !.lastSet = t]
    /\ op' = [name |-> "Sampler::setTexture", texture |-> t]
    /\ calls' = <<>>
    /\ UNCHANGED <<allocator, heap, callerPtrs, deviceVars, glError>>

\* Sampler::bind: the unit at index, then the texture's handle, 0 for a
\* null texture pointer.
SamplerBind(h, e) ==
    /\ sampler.constructed
    /\ allocator # nullptr
    /\ h \in (IF sampler.texture = NULL THEN {NULL}
              ELSE IF sampler.texture = Garbage THEN {Garbage}
              ELSE HandleReads(sampler.texture))
    /\ op' = [name |-> "Sampler::bind", err |-> Raise(glError, e),
              sampled |-> TRUE, trap |-> MGL_OPENGL_CHECK(Raise(glError, e))]
    /\ calls' = << <<"glActiveTexture", sampler.index>>,
                   <<"glBindTexture", h>>, <<"glGetError">> >>
    /\ glError' = NoError
    /\ UNCHANGED <<allocator, heap, callerPtrs, deviceVars, sampler>>

\* ---------------------------------------------------------------- Program
\* glGetShaderInfoLog / glGetProgramInfoLog into a buffer of bufSize bytes,
\* of a log of logLen characters: at most bufSize bytes with the terminator,
\* and nothing at all when bufSize is 0.
glGetInfoLog(bufSize, logLen) ==
    IF bufSize <= 0
    THEN [chars |-> 0, nul |-> 0]
    ELSE [chars |-> IF logLen < bufSize - 1 THEN logLen ELSE bufSize - 1,
          nul |-> 1]

\* A capture that asks for one byte more than the buffer holds.
CaptureLog_WholeSizePlusOne(fn, x, size, logLen) ==
    IF size = 0
    THEN [calls |-> <<>>, size |-> size]
    ELSE LET w == glGetInfoLog(size + 1, logLen)
         IN [calls |-> << <<fn, x, size + 1, w.chars, w.nul>> >>,
             size |-> w.chars]

\* The diagnostic capture of a failure on device object x: none into an
\* empty result, else at most result.size() - 1 bytes asked for, and result
\* cut to the length the device reports.
CaptureLog(fn, x, size, logLen) ==
    IF size = 0
    THEN [calls |-> <<>>, size |-> size]
    ELSE LET w == glGetInfoLog(size - 1, logLen)
         IN [calls |-> << <<fn, x, size - 1, w.chars, w.nul>> >>,
             size |-> w.chars]

\* Program::make's compile lambda on the new shader name s: s when the
\* source compiles, else the log captured, the shader deleted, and 0.
compile(s, ok, size, logLen) ==
    LET head == << <<"glCreateShader", s>>, <<"glShaderSource", s>>,
                   <<"glCompileShader", s>>, <<"glGetShaderiv", s>>,
                   <<"glGetError">> >>
        log == CaptureLog("glGetShaderInfoLog", s, size, logLen)
    IN IF ok
       THEN [s |-> s, calls |-> head \o << <<"glGetError">> >>, size |-> size]
       ELSE [s |-> NULL,
             calls |-> head \o log.calls
                       \o << <<"glDeleteShader", s>>, <<"glGetError">> >>,
             size |-> log.size]

\* A link step that returns the program whatever the link status says.
link_StatusIgnored(vs, fs, p, ok, size, logLen) ==
    [p |-> p,
     calls |-> << <<"glCreateProgram", p>>, <<"glAttachShader", p, vs>>,
                  <<"glAttachShader", p, fs>>, <<"glDeleteShader", vs>>,
                  <<"glDeleteShader", fs>>, <<"glLinkProgram", p>>,
                  <<"glGetProgramiv", p>>, <<"glGetError">>,
                  <<"glGetError">> >>,
     size |-> size]

\* Program::make from glCreateProgram on, with both shaders compiled: the
\* program name p when the link succeeds, else the log captured, the
\* program deleted, and 0.
link(vs, fs, p, ok, size, logLen) ==
    LET head == << <<"glCreateProgram", p>>, <<"glAttachShader", p, vs>>,
                   <<"glAttachShader", p, fs>>, <<"glDeleteShader", vs>>,
                   <<"glDeleteShader", fs>>, <<"glLinkProgram", p>>,
                   <<"glGetProgramiv", p>>, <<"glGetError">> >>
        log == CaptureLog("glGetProgramInfoLog", p, size, logLen)
    IN IF ok
       THEN [p |-> p, calls |-> head \o << <<"glGetError">> >>, size |-> size]
       ELSE [p |-> NULL,
             calls |-> head \o log.calls \o << <<"glDeleteProgram", p>> >>,
             size |-> log.size]

\* Program::make up to its return: the fragment stage is compiled only when
\* the vertex stage did, and the link is tried only when both did.
ProgramMakeRun(vsOk, fsOk, linkOk, size, logLen, h) ==
    LET c1 == compile(h, vsOk, size, logLen)
        c2 == compile(h + 1, fsOk, size, logLen)
        l == link(c1.s, c2.s, h + 2, linkOk, size, logLen)
    IN IF c1.s = NULL
       THEN [p |-> NULL, calls |-> c1.calls, size |-> c1.size]
       ELSE IF c2.s = NULL
            THEN [p |-> NULL, calls |-> c1.calls \o c2.calls, size |-> c2.size]
            ELSE [p |-> l.p, calls |-> c1.calls \o c2.calls \o l.calls,
                  size |-> l.size]

\* Program::make(vertexShaderSource, fragShaderSource, result): result has
\* `size` bytes, the device's log of a failure has logLen characters.
ProgramMake(vsOk, fsOk, linkOk, size, logLen, e) ==
    /\ allocator # nullptr
    /\ Len(heap) < MaxBlocks
    /\ nextHandle + 2 <= MaxHandles
    /\ LET run == ProgramMakeRun(vsOk, fsOk, linkOk, size, logLen, nextHandle)
           self == Len(heap) + 1
           pend == Raise(glError, e)
           cs == IF run.p = NULL THEN run.calls
                 ELSE run.calls \o << <<"allocate", allocator, self>> >>
       IN /\ heap' = IF run.p = NULL THEN heap ELSE newObject("Program", run.p)
          /\ callerPtrs' = IF run.p = NULL THEN callerPtrs
                           ELSE callerPtrs \cup {self}
          /\ DeviceAfter(cs)
          /\ glError' = NoError
          /\ op' = [name |-> "Program::make", vsOk |-> vsOk, fsOk |-> fsOk,
                    linkOk |-> linkOk, size |-> size, result |-> run.size,
                    ret |-> IF run.p = NULL THEN NULL ELSE self,
                    err |-> pend, sampled |-> TRUE,
                    trap |-> MGL_OPENGL_CHECK(pend)]
          /\ calls' = cs
    /\ UNCHANGED <<allocator, sampler>>

\* Program::use: glUseProgram, and no error check.
ProgramUse(p, e) ==
    /\ p \in Live("Program")
    /\ op' = [name |-> "Program::use", self |-> p, err |-> Raise(glError, e),
              sampled |-> FALSE, trap |-> FALSE]
    /\ calls' = << <<"glUseProgram", heap[p].handle>> >>
    /\ glError' = Raise(glError, e)
    /\ UNCHANGED <<allocator, heap, callerPtrs, deviceVars, sampler>>

\* ---------------------------------------------------------------- uniforms
\* The upload primitives and the element count each asserts.
Primitives == {"f1", "f2", "f3", "f4", "i1", "i2", "i3", "i4",
               "m3x2", "m3x3", "m4x2", "m4x3", "m4x4"}

Arity(prim) ==
    CASE prim \in {"f1", "i1"} -> 1
      [] prim \in {"f2", "i2"} -> 2
      [] prim \in {"f3", "i3"} -> 3
      [] prim \in {"f4", "i4"} -> 4
      [] prim = "m3x2" -> 3 * 2
      [] prim = "m3x3" -> 3 * 3
      [] prim = "m4x2" -> 4 * 2
      [] prim = "m4x3" -> 4 * 3
      [] prim = "m4x4" -> 4 * 4

\* The device call each primitive makes.
glUniform(prim) ==
    CASE prim = "f1" -> "glUniform1fv" [] prim = "f2" -> "glUniform2fv"
      [] prim = "f3" -> "glUniform3fv" [] prim = "f4" -> "glUniform4fv"
      [] prim = "i1" -> "glUniform1iv" [] prim = "i2" -> "glUniform2iv"
      [] prim = "i3" -> "glUniform3iv" [] prim = "i4" -> "glUniform4iv"
      [] prim = "m3x2" -> "glUniformMatrix3x2fv"
      [] prim = "m3x3" -> "glUniformMatrix3fv"
      [] prim = "m4x2" -> "glUniformMatrix4x2fv"
      [] prim = "m4x3" -> "glUniformMatrix4x3fv"
      [] prim = "m4x4" -> "glUniformMatrix4fv"

\* An assertion that traps when its condition holds.
MGL_ASSERT_Inverted(expr) == expr

\* MGL_ASSERT(expr): whether it traps.
MGL_ASSERT(expr) == ~expr

\* The value types Uniform<T> is specialised for, and sizeof each of the
\* glm types in bytes.
UniformTypes == {"float", "int", "Sampler", "vec2", "vec3", "vec4", "mat3", "mat4"}

sizeofFloat == 4

sizeof(T) ==
    CASE T = "vec2" -> 2 * sizeofFloat
      [] T = "vec3" -> 3 * sizeofFloat
      [] T = "vec4" -> 4 * sizeofFloat
      [] T = "mat3" -> 3 * 3 * sizeofFloat
      [] T = "mat4" -> 4 * 4 * sizeofFloat

\* A conversion that counts the object's bytes.
fromObject_Bytes(T) == sizeof(T)

\* View<const float>::fromObject: sizeof(Object) / sizeof(float) elements.
fromObject(T) == sizeof(T) \div sizeofFloat

\* Uniform<T>: the primitive it forwards to and the size of the view it
\* passes.  Sampler goes through set_uniform<Sampler>, with its index.
UniformDispatch(T) ==
    CASE T = "float"   -> [prim |-> "f1", count |-> 1]
      [] T = "int"     -> [prim |-> "i1", count |-> 1]
      [] T = "Sampler" -> [prim |-> "i1", count |-> 1]
      [] T = "vec2"    -> [prim |-> "f2", count |-> fromObject(T)]
      [] T = "vec3"    -> [prim |-> "f3", count |-> fromObject(T)]
      [] T = "vec4"    -> [prim |-> "f4", count |-> fromObject(T)]
      [] T = "mat3"    -> [prim |-> "m3x3", count |-> fromObject(T)]
      [] T = "mat4"    -> [prim |-> "m4x4", count |-> fromObject(T)]

\* An upload through primitive prim of a view of n elements: the assertion
\* on n, then the device call, and no error check.
Upload(name, T, prim, n, e) ==
    /\ allocator # nullptr
    /\ op' = [name |-> name, type |-> T, prim |-> prim, count |-> n,
              err |-> Raise(glError, e), sampled |-> FALSE,
              trap |-> MGL_ASSERT(n = Arity(prim))]
    /\ calls' = << <<glUniform(prim), 1>> >>
    /\ glError' = Raise(glError, e)
    /\ UNCHANGED <<allocator, heap, callerPtrs, deviceVars, sampler>>

\* set_uniform_f1 .. set_uniform_m4x4 on a view of n elements.
set_uniform(prim, n, e) == Upload("set_uniform", "-", prim, n, e)

\* Uniform<T>(p, index, value).
Uniform(T, e) ==
    Upload("Uniform", T, UniformDispatch(T).prim, UniformDispatch(T).count, e)

\* ------------------------------------------------------------------- View
\* The non-null addresses a pointer can hold.
Addresses == 1..MaxAddress

\* The characters of a C string, and NUL, its terminator.
Chars == {"a", "b"}
NUL == "\\0"

\* What a const char* argument is: a null pointer, or the address of
\* characters followed by NUL.
CStrings ==
    {[ptr |-> NULL, bytes |-> <<>>]}
    \cup {[ptr |-> 1, bytes |-> Append(cs, NUL)] :
            cs \in UNION {[1..n -> Chars] : n \in 0..MaxString}}

\* View(T(&ptr)[N]): the array's address and its extent.
View_array(ptr, N) == View_pointer(ptr, N)

\* StringView::stringLength: the characters before NUL, none at a null
\* pointer.
RECURSIVE stringLengthFrom(_, _, _)
stringLengthFrom(string, at, len) ==
    IF string.ptr # NULL /\ string.bytes[at] # NUL
    THEN stringLengthFrom(string, at + 1, len + 1)
    ELSE len

stringLength(string) == stringLengthFrom(string, 1, 0)

\* StringView(const char* string).
StringView(string) == View_pointer(string.ptr, stringLength(string))

\* View<const T>::fromObject(object): the object's address and its size in
\* floats.
View_fromObject(address, T) == View_pointer(address, fromObject(T))

\* A view constructed by `ctor` from `arg`.
Construct(ctor, arg, view) ==
    /\ op' = [name |-> "View", ctor |-> ctor, arg |-> arg, view |-> view]
    /\ calls' = <<>>
    /\ UNCHANGED <<allocator, heap, callerPtrs, deviceVars, glError, sampler>>

\* ------------------------------------------------------------------ claims
Indices(cs, f) == {i \in 1..Len(cs) : cs[i][1] = f}

VertexArrayDestroyed ==
    op.name \in {"deleteObject", "delete"} /\ op.type = "VertexArray"

\* C1: destroying a VertexArray with N attached Buffers releases the device
\* vertex-array name first, then runs exactly N buffer-destroy sequences (a
\* Buffer destructor and its glDeleteBuffers), one per attached buffer in
\* list order, and only after all of them frees the list's storage through
\* the installed allocator.
C1_DestructionOrder ==
    VertexArrayDestroyed =>
        LET v == op.self
            N == heap[v].attachedBufferCount
            list == heap[v].attachedBuffers
            gone == Indices(calls, "glDeleteVertexArrays")
            dtor == Indices(calls, "~Buffer")
            freed == {i \in Indices(calls, "free") : calls[i][3] = list}
        IN /\ gone = {2}
           /\ calls[2][2] = heap[v].handle
           /\ Cardinality(dtor) = N
           /\ \A k \in 1..N :
                 /\ calls[2 * k + 1] = <<"~Buffer", heap[list].items[k]>>
                 /\ calls[2 * k + 2][1] = "glDeleteBuffers"
           /\ Cardinality(freed) = 1
           /\ \A f \in freed :
                 /\ calls[f][2] = allocator
                 /\ \A i \in gone \cup dtor : i + 1 <= f
                 /\ f = 2 * N + 3

\* C1's case: a VertexArray that owns two Buffers has been destroyed.
C1_Witness ==
    /\ VertexArrayDestroyed
    /\ heap[op.self].attachedBufferCount = 2
    /\ Cardinality(Indices(calls, "glDeleteBuffers")) = 2

\* An owning object is destroyed once its destructor has run; a buffer-link
\* list, once its VertexArray's has.
IsDestroyed(a) ==
    IF heap[a].type = "Buffer*[]"
    THEN \E v \in 1..Len(heap) :
            /\ heap[v].type = "VertexArray"
            /\ heap[v].attachedBuffers = a
            /\ heap[v].dtors > 0
    ELSE heap[a].dtors > 0

\* C2: the storage of every destroyed owning object (Buffer, VertexArray,
\* Texture, Program, and a VertexArray's buffer-link list) has been freed
\* through the allocator instance that allocated it; in particular that of
\* every Buffer a destroyed VertexArray owned.
C2_FreedThroughItsAllocator ==
    \A a \in 1..Len(heap) : IsDestroyed(a) => heap[a].freedBy = heap[a].allocBy

\* C3: no Buffer is destroyed twice and no device buffer name is released
\* more than once, because a Buffer handed to VertexArray::make is destroyed
\* by that VertexArray alone.
C3_DestroyedOnce ==
    /\ \A a \in 1..Len(heap) : heap[a].type = "Buffer" => heap[a].dtors <= 1
    /\ \A h \in 1..MaxHandles : glDeletes[h] <= 1

\* C4: when Program::make returns null, no shader or program name the call
\* created is still in use on the device.
C4_NothingLeftOnFailure ==
    (op.name = "Program::make" /\ op.ret = NULL) =>
        {calls[i][2] : i \in Indices(calls, "glCreateShader")
                          \cup Indices(calls, "glCreateProgram")}
            \cap glLive = {}

\* C5: Program::make tries the link only when both stages compiled, and
\* returns a Program exactly when both compiles and the link succeeded.
C5_ProgramIffAllSucceed ==
    op.name = "Program::make" =>
        /\ Indices(calls, "glLinkProgram") # {} => (op.vsOk /\ op.fsOk)
        /\ op.ret # NULL <=> (op.vsOk /\ op.fsOk /\ op.linkOk)
        /\ op.ret # NULL =>
              /\ heap[op.ret].type = "Program"
              /\ heap[op.ret].handle \in glLive
              /\ op.ret \in callerPtrs

\* C5's case: both stages compiled, the link succeeded, a Program came back.
C5_Witness ==
    /\ op.name = "Program::make"
    /\ op.ret # NULL
    /\ Indices(calls, "glLinkProgram") # {}

LogCalls ==
    Indices(calls, "glGetShaderInfoLog") \cup Indices(calls, "glGetProgramInfoLog")

\* C6: a failing Program::make has the device write at most size - 1 bytes
\* of text and a terminator into a result of `size` bytes, never more than
\* `size` bytes in all, and asks for no text at all when size is 0.
C6_DiagnosticFitsScratch ==
    (op.name = "Program::make" /\ op.ret = NULL) =>
        /\ \A i \in LogCalls :
              /\ calls[i][4] <= op.size - 1
              /\ calls[i][4] + calls[i][5] <= op.size
        /\ op.size = 0 => LogCalls = {}

\* C6's case: a failure whose log did not fit and was cut to the buffer.
C6_Witness ==
    /\ op.name = "Program::make"
    /\ op.ret = NULL
    /\ op.size = MaxScratch
    /\ \E i \in LogCalls : calls[i][4] = op.size - 2 /\ calls[i][5] = 1

\* The arity of each semantic value type: 1 for scalars and samplers, the
\* component count of a vector, 9 and 16 for the matrices.
TypeArity(T) ==
    CASE T \in {"float", "int", "Sampler"} -> 1
      [] T = "vec2" -> 2
      [] T = "vec3" -> 3
      [] T = "vec4" -> 4
      [] T = "mat3" -> 9
      [] T = "mat4" -> 16

\* The fixed arity of each upload primitive.
PrimitiveArity(prim) ==
    CASE prim \in {"f1", "i1"} -> 1
      [] prim \in {"f2", "i2"} -> 2
      [] prim \in {"f3", "i3"} -> 3
      [] prim \in {"f4", "i4"} -> 4
      [] prim = "m3x2" -> 6
      [] prim = "m3x3" -> 9
      [] prim = "m4x2" -> 8
      [] prim = "m4x3" -> 12
      [] prim = "m4x4" -> 16

\* C7: Uniform<T> uploads through the primitive whose arity is T's, with a
\* view of exactly that many elements: 1 for float, int and Sampler, 2, 3, 4
\* for the vectors, 9 for a 3x3 and 16 for a 4x4 matrix.
C7_UniformArity ==
    op.name = "Uniform" =>
        /\ op.count = TypeArity(op.type)
        /\ PrimitiveArity(op.prim) = TypeArity(op.type)
        /\ op.prim \in (IF op.type \in {"int", "Sampler"} THEN {"i1"}
                        ELSE Primitives \ {"i1", "i2", "i3", "i4"})

\* C7's case: a 4x4 matrix went up as 16 elements through m4x4.
C7_Witness ==
    /\ op.name = "Uniform"
    /\ op.type = "mat4"
    /\ op.prim = "m4x4"
    /\ op.count = 16

\* C8: an upload primitive traps exactly when the view's element count
\* differs from its fixed arity.
C8_TrapIffArityMismatch ==
    op.name \in {"set_uniform", "Uniform"} =>
        (op.trap <=> op.count # PrimitiveArity(op.prim))

\* C8's case: a view one element short of a 4x3 matrix trapped.
C8_Witness ==
    /\ op.name = "set_uniform"
    /\ op.prim = "m4x3"
    /\ op.count = 11
    /\ op.trap

\* The operations C9 names.
CheckedOperations ==
    {"VertexArray::draw", "VertexArray::bind", "Buffer::bind", "Sampler::bind",
     "Program::use", "Buffer::write", "Texture::write", "Texture::make",
     "set_uniform", "Uniform"}

\* C9: after each draw, bind and upload operation the device's error is read,
\* and an error of any code traps.
C9_EveryErrorTraps ==
    op.name \in CheckedOperations =>
        /\ op.sampled
        /\ op.err # NoError => op.trap

\* The source pixel format of a texture upload call.
PixelFormatOf(c) == IF c[1] = "glTexImage2D" THEN c[4] ELSE c[3]

\* C10: every pixel upload of Texture::make and Texture::write passes, as the
\* source pixel format, the base shape of the texture's device storage
\* format.
C10_UploadsUseBaseOfDeviceFormat ==
    op.name \in {"Texture::make", "Texture::write"} =>
        \A i \in Indices(calls, "glTexImage2D") \cup Indices(calls, "glTexSubImage2D") :
            PixelFormatOf(calls[i])
                = enum_cast_TextureFormat(sizedToBase(heap[op.self].format))

\* The number of colour channels a format's name stands for.
ChannelCount(format) ==
    CASE format \in {"RED", "R8u", "R32f"}               -> 1
      [] format \in {"RG", "RG8u", "RG32f"}              -> 2
      [] format \in {"RGB", "BGR", "RGB8u", "RGB32f"}    -> 3
      [] format \in {"RGBA", "BGRA", "RGBA8u", "RGBA32f"} -> 4

\* C11: sizedToBase is idempotent on every TextureFormat, and takes every
\* sized format to a base format of the same channel count.
C11_SizedToBaseIdempotentSameShape ==
    op.name = "sizedToBase" =>
        /\ op.rebase = op.base
        /\ op.format \in SizedFormats =>
              /\ op.base \in BaseFormats
              /\ ChannelCount(op.base) = ChannelCount(op.format)

\* C11's case: sizedToBase has been applied to a sized three-channel format.
C11_Witness ==
    /\ op.name = "sizedToBase"
    /\ op.format = "RGB32f"
    /\ op.base = "RGB"

\* C12: Sampler::bind activates the texture unit at the sampler's slot index
\* and binds the handle of the texture last given to setTexture, the null
\* handle when none was given or the last given was null.
C12_BindsSlotAndLastTexture ==
    op.name = "Sampler::bind" =>
        /\ calls[1] = <<"glActiveTexture", sampler.index>>
        /\ calls[2] = <<"glBindTexture",
                        IF sampler.lastSet = NULL THEN NULL
                        ELSE heap[sampler.lastSet].handle>>

\* C13: every View a constructor of View or StringView, or fromObject,
\* produces has no elements when its pointer is null.
C13_NullViewIsEmpty ==
    op.name = "View" => (op.view.first = NULL => op.view.len = 0)

\* The vertex-array name bound when call i of cs is issued, NULL when cs
\* binds none before it.
BoundAt(cs, i) ==
    LET binds == {j \in Indices(cs, "glBindVertexArray") : j < i}
    IN IF binds = {} THEN NULL
       ELSE cs[CHOOSE j \in binds : \A k \in binds : k <= j][2]

\* What make leaves: the callback ran once, on the new name while it was
\* bound and before any storage was taken for the object or its list; the
\* list holds the supplied pointers in the supplied order, and no others.
MakeAttached ==
    op.name = "VertexArray::make" =>
        LET v == op.self
            cb == Indices(calls, "callback")
        IN /\ Cardinality(cb) = 1
           /\ \A i \in cb :
                 /\ calls[i] = <<"callback", heap[v].handle, op.buffers>>
                 /\ BoundAt(calls, i) = heap[v].handle
                 /\ \A a \in Indices(calls, "allocate") : i < a
           /\ getBuffers(v) = op.buffers
           /\ heap[v].attachedBufferCount = Len(op.buffers)

\* A step leaves the list and the count of every VertexArray it does not
\* destroy as they were.
AttachmentKept ==
    \A v \in Live("VertexArray") :
        v \in Live("VertexArray")' =>
            /\ heap'[v].attachedBufferCount = heap[v].attachedBufferCount
            /\ getBuffers(v)' = getBuffers(v)

\* C14: VertexArray::make runs the callback while the new vertex-array name
\* is the bound one and before ownership is taken; afterwards getBuffers
\* returns exactly the supplied pointers in the supplied order, the count is
\* the supplied count, and no later bind, draw or getBuffers changes either.
C14_AttachmentFixedAtMake ==
    /\ []MakeAttached
    /\ [][AttachmentKept]_vars

\* C14's case: a VertexArray made with two buffers has since been drawn.
C14_Witness ==
    /\ op.name = "VertexArray::draw"
    /\ heap[op.self].attachedBufferCount = 2
    /\ Len(getBuffers(op.self)) = 2

\* Whether a clear mask contains a bit.
HasBit(mask, bit) == (mask \div bit) % 2 = 1

\* C15: clear issues one glClear whose mask contains the colour-buffer bit
\* exactly when clearColour is true and the depth-buffer bit exactly when
\* clearDepth is true.
C15_ClearMaskFollowsFlags ==
    op.name = "clear" =>
        /\ Cardinality(Indices(calls, "glClear")) = 1
        /\ \A i \in Indices(calls, "glClear") :
              /\ HasBit(calls[i][2], GL_COLOR_BUFFER_BIT) = op.clearColour
              /\ HasBit(calls[i][2], GL_DEPTH_BUFFER_BIT) = op.clearDepth

\* The caller: the allocator is installed once, before anything is made;
\* objects are made and destroyed, by deleteObject or by a delete-expression,
\* each pointer at most once.
Next ==
    \/ \E a \in Allocators : allocator = nullptr /\ init(a)
    \/ \E e \in Reported : BufferMake(e)
    \/ \E bs \in BufferLists, e1, e2 \in Reported : VertexArrayMake(bs, e1, e2)
    \/ \E desc \in SourceData({"RGBA"}), e \in Reported :
          TextureMake("RGBA8u", desc, e)
    \/ \E ok \in BOOLEAN : ProgramMake(TRUE, TRUE, ok, 0, 0, NoError)
    \/ \E p \in callerPtrs \cup {NULL} : \E reads \in ReadChoices(p) :
          deleteObject(p, reads)
    \/ \E p \in callerPtrs \cup {NULL} : \E reads \in ReadChoices(p) :
          DeleteExpression(p, reads)

Spec == Init /\ [][Next]_vars

\* The caller's frame: objects are made, then bound, written, drawn and
\* uploaded to, the device reporting errors along the way.
NextDevice ==
    \/ \E a \in Allocators : allocator = nullptr /\ init(a)
    \/ BufferMake(NoError)
    \/ \E bs \in BufferLists : VertexArrayMake(bs, NoError, NoError)
    \/ \E f \in {"RGBA8u", "RGB"}, e \in Reported : TextureMake(f, NoSourceData, e)
    \/ ProgramMake(TRUE, TRUE, TRUE, 0, 0, NoError)
    \/ \E b \in callerPtrs, e \in Reported : BufferBind(b, e)
    \/ \E b \in callerPtrs, e \in Reported : BufferWrite(b, e)
    \/ \E v \in callerPtrs, e \in Reported : VertexArrayBind(v, e)
    \/ \E v \in callerPtrs, mode \in DrawModes, e \in Reported :
          VertexArrayDraw(v, mode, e)
    \/ \E v \in callerPtrs : VertexArrayGetBuffers(v)
    \/ \E rgb \in Colours, clearColour, clearDepth \in BOOLEAN :
          clear(rgb, clearColour, clearDepth)
    \/ \E t \in callerPtrs, type \in DataTypes, e \in Reported :
          TextureWrite(t, type, e)
    \/ \E slot \in 0..MaxSlot, held \in {NULL, Garbage} :
          SamplerConstruct(slot, held)
    \/ \E t \in Live("Texture") \cup {NULL} : SamplerSetTexture(t)
    \/ \E h \in (0..MaxHandles) \cup {Garbage}, e \in Reported : SamplerBind(h, e)
    \/ \E p \in callerPtrs, e \in Reported : ProgramUse(p, e)
    \/ \E prim \in Primitives, e \in Reported : set_uniform(prim, Arity(prim), e)

SpecDevice == Init /\ [][NextDevice]_vars

\* The life of vertex arrays: buffers are made and handed to make, the
\* vertex arrays are bound, drawn and asked for their buffers, and objects
\* are deleted.
NextVertexArray ==
    \/ \E a \in Allocators : allocator = nullptr /\ init(a)
    \/ BufferMake(NoError)
    \/ \E bs \in BufferLists, e1, e2 \in Reported : VertexArrayMake(bs, e1, e2)
    \/ \E v \in callerPtrs, e \in Reported : VertexArrayBind(v, e)
    \/ \E v \in callerPtrs, mode \in DrawModes, e \in Reported :
          VertexArrayDraw(v, mode, e)
    \/ \E v \in callerPtrs : VertexArrayGetBuffers(v)
    \/ \E p \in callerPtrs : \E reads \in ReadChoices(p) :
          DeleteExpression(p, reads)

SpecVertexArray == Init /\ [][NextVertexArray]_vars

\* Textures of every format, made with and without source data of every
\* format and type, then written to.
NextTexture ==
    \/ \E a \in Allocators : allocator = nullptr /\ init(a)
    \/ \E f \in TextureFormats, desc \in SourceData(TextureFormats) :
          TextureMake(f, desc, NoError)
    \/ \E t \in callerPtrs, type \in DataTypes : TextureWrite(t, type, NoError)
    \/ \E t \in callerPtrs : DeleteExpression(t, <<>>)
    \/ \E f \in TextureFormats : SizedToBase(f)

SpecTexture == Init /\ [][NextTexture]_vars

\* Program::make over every compile and link outcome, result size and log
\* length.
NextProgram ==
    \/ \E a \in Allocators : allocator = nullptr /\ init(a)
    \/ \E vsOk, fsOk, linkOk \in BOOLEAN, size \in 0..MaxScratch,
          logLen \in 0..MaxLog, e \in Reported :
            ProgramMake(vsOk, fsOk, linkOk, size, logLen, e)
    \/ \E p \in callerPtrs, e \in Reported : ProgramUse(p, e)
    \/ \E p \in callerPtrs : DeleteExpression(p, <<>>)

SpecProgram == Init /\ [][NextProgram]_vars

\* The uniform uploads: every primitive on views of every size, and every
\* specialisation of Uniform<T>.
NextUniform ==
    \/ \E a \in Allocators : allocator = nullptr /\ init(a)
    \/ \E prim \in Primitives, n \in 0..MaxView, e \in Reported :
          set_uniform(prim, n, e)
    \/ \E T \in UniformTypes, e \in Reported : Uniform(T, e)

SpecUniform == Init /\ [][NextUniform]_vars

\* The views a caller can construct: by each constructor of View and
\* StringView and by fromObject, over every pointer, count, array extent,
\* string and object type.
NextView ==
    \/ Construct("View()", <<>>, View_default)
    \/ \E ptr \in Addresses, N \in 1..MaxView :
          Construct("View(T(&)[N])", <<ptr, N>>, View_array(ptr, N))
    \/ \E ptr \in {NULL} \cup Addresses, length \in 0..MaxView :
          Construct("View(T*, size_t)", <<ptr, length>>, View_pointer(ptr, length))
    \/ \E string \in CStrings :
          Construct("StringView(const char*)", string, StringView(string))
    \/ \E address \in Addresses, T \in {"vec2", "vec3", "vec4", "mat3", "mat4"} :
          Construct("fromObject", <<address, T>>, View_fromObject(address, T))

SpecView == Init /\ [][NextView]_vars
====
